---- MODULE Spec2Model ----
(***************************************************************************)
(* Model of the chunked transfer pipeline of aws_s3_and_RDS_task:          *)
(*   - DataGenerator.generate_data_parallel  (planning, chunk files,       *)
(*                                            manifests),                  *)
(*   - ParequateConverter                    (conversion and its manifest),*)
(*   - LocalParquetImporter                  (ledger, quota, ingestion),   *)
(*   - S3Uploader                            (manifest resolution and the  *)
(*                                            object-store path),          *)
(*   - the CRUD endpoints of app.py as the external writer of the sink.    *)
(* A chunk file is identified by its chunk ordinal; a row of the sink is   *)
(* <<ordinal, position in the file>>, and <<0, 0>> is a row that was       *)
(* written by the CRUD endpoints.                                          *)
(***************************************************************************)
EXTENDS Integers, Sequences, FiniteSets, Bags, TLC

\* ------------------------------------------------------------------ bounds
MaxChunks == 3        \* chunk files a conversion run leaves in the directory
MaxRows == 2          \* rows of one chunk file
RowLimit == 3         \* row_limit of LocalParquetImporter (10000 in the source)
MaxExternalOps == 1   \* CRUD writes of app.py in one behaviour
MaxTotalRows == 7     \* num_rows of the generator
MaxCores == 4         \* mp.cpu_count()
MaxOrderChunks == 10  \* chunk files of the directory in SpecOrder
MaxGenRuns == 2       \* runs of data_generation.py in one behaviour
MaxPipeRows == 3      \* num_rows of the generator in SpecPipeline
MaxPipeCores == 2     \* mp.cpu_count() in SpecPipeline
MaxClock == 5         \* clock ticks of one behaviour of SpecResolve
TicksPerSecond == 2   \* clock ticks in one second of a "%Y%m%d_%H%M%S" timestamp

VARIABLES
    \* durable state
    parquet_dir,          \* chunk ordinal -> rows of the file (input_dir/*.parquet)
    sink,                 \* the rows of the RDS table, a bag of rows
    import_manifest_file, \* data/manifests/import_manifest.json
    upload_manifest,      \* upload_manifest_<ts>.json, the upload log file of this run
    \* the running process (run_importer.py)
    pc, import_type,
    imported_files,       \* self.imported_files, as the ordered dict it is
    current_rows, total_rows_inserted, skipped_files,
    parquet_files, idx, records,
    upload_log,
    ext_ops,              \* CRUD writes so far
    \* history (read by the properties only)
    run_errors,           \* a chunk of this run raised
    dirty_run,            \* a CRUD write happened since this run started
    deleted_run,          \* a CRUD delete happened since this run started
    touched,              \* a CRUD write happened since the last loop-head check
    prev_run,             \* how the previous import_to_rds ended
    recorded,             \* files that ever had an entry in a fully written ledger
    completed_run,        \* files imported and flushed by this process
    skipped_run,          \* files skipped by a ledger hit in this run
    crash_note,           \* what the last kill at a chunk boundary left behind
    truncated_file,       \* chunk of this run that exceeded the remaining quota
    insert_failed,        \* files whose insert_many raised: in this run, in the one before
    \* generate_data_parallel
    plan_pc, total_rows, num_cores, i, start_id, chunks,
    results,              \* what pool.starmap returned, one <<start_id, rows>> per worker
    gen_idx, manifest,    \* the writing loop of lines 79-92 and its manifest list
    gen_run,              \* the run's timestamp, as a run number
    excel_dir,            \* <<run, chunk_id>> -> <<start_id, rows>>, the Excel chunk files
    excel_manifests,      \* manifest files of the generation stage, by name
    \* convert_to_parquet.py
    conv_pc, conv_files, conv_idx, conv_manifest,
    parquet_manifests,    \* manifest files of the conversion stage, by name
    conv_outcome,         \* history: how each iteration of the conversion loop ended
    \* LocalParquetImporter(row_limit=...)
    row_limit,
    loaded_corrupt,       \* history: this importer found a ledger file it could not parse
    \* upload_aws.py __main__ and the files it resolves
    clock,                \* the wall clock, in ticks
    dir_files,            \* file -> st_mtime, the files of output_dir and manifest_dir
    latest_manifest,      \* what get_latest_manifest returned
    res_pc,
    res_stamp             \* `timestamp` of the conversion run that is writing, or NoStamp

durableVars == <<parquet_dir, sink, import_manifest_file, upload_manifest>>
procVars == <<pc, import_type, imported_files, current_rows, total_rows_inserted,
              skipped_files, parquet_files, idx, records, upload_log, ext_ops>>
histVars == <<run_errors, dirty_run, deleted_run, touched, prev_run, recorded, completed_run,
              skipped_run, crash_note, insert_failed, truncated_file>>
planVars == <<plan_pc, total_rows, num_cores, i, start_id, chunks>>
stageVars == <<results, gen_idx, manifest, gen_run, excel_dir, excel_manifests,
               conv_pc, conv_files, conv_idx, conv_manifest, parquet_manifests,
               conv_outcome>>
resolveVars == <<clock, dir_files, latest_manifest, res_pc, res_stamp>>
vars == <<durableVars, procVars, histVars, planVars, stageVars, resolveVars, row_limit,
          loaded_corrupt>>

\* ------------------------------------------------------------- file names
\* str(idx): the decimal digits of idx as character codes.
RECURSIVE Digits(_)
Digits(n) == IF n < 10 THEN <<48 + n>> ELSE Digits(n \div 10) \o <<48 + (n % 10)>>

\* output_prefix "converted_chunk_" and the run's "%Y%m%d_%H%M%S" + ".parquet".
OutputPrefix == <<99, 111, 110, 118, 101, 114, 116, 101, 100, 95, 99, 104, 117, 110, 107, 95>>
RunStamp == <<50, 48, 50, 53, 48, 49, 48, 49, 95, 49, 50, 48, 48, 48, 48>>
ParquetSuffix == <<46, 112, 97, 114, 113, 117, 101, 116>>

\* f"{self.output_prefix}{idx}_{timestamp}.parquet"
ParquetName(n) == OutputPrefix \o Digits(n) \o <<95>> \o RunStamp \o ParquetSuffix

\* Python's str comparison: code point by code point, a proper prefix first.
RECURSIVE LexLess(_, _)
LexLess(a, b) ==
    IF b = <<>> THEN FALSE
    ELSE IF a = <<>> THEN TRUE
    ELSE IF Head(a) # Head(b) THEN Head(a) < Head(b)
    ELSE LexLess(Tail(a), Tail(b))

\* sorted(paths): ascending by name.
RECURSIVE SortedByName(_)
SortedByName(S) ==
    IF S = {} THEN <<>>
    ELSE LET m == CHOOSE x \in S : \A y \in S \ {x} : LexLess(ParquetName(x), ParquetName(y))
         IN <<m>> \o SortedByName(S \ {m})

get_local_parquet_files == SortedByName(DOMAIN parquet_dir)

\* pd.read_parquet(file_path): the rows of the file in on-disk order.
ChunkRows(f) == [j \in 1..parquet_dir[f] |-> <<f, j>>]

\* ------------------------------------------------------------ the ledger
NoFile == [exists |-> FALSE, complete |-> FALSE, entries |-> <<>>]

LedgerFiles(entries) == {entries[k].file : k \in 1..Len(entries)}

\* A ledger that drops what it had loaded (mutant of load_import_manifest).
load_forgets == <<>>

\* A loader that keeps whatever entries a damaged file still holds (mutant of
\* load_import_manifest).
load_salvages == import_manifest_file.entries

\* load_import_manifest: the entries of a file that parses, {} otherwise.
load_import_manifest ==
    IF import_manifest_file.exists /\ import_manifest_file.complete
    THEN import_manifest_file.entries
    ELSE <<>>

\* self.imported_files[file_name] = {...}: replaces in place or appends.
SetEntry(entries, f, n) ==
    IF f \in LedgerFiles(entries)
    THEN [k \in 1..Len(entries) |->
            IF entries[k].file = f THEN [file |-> f, rows_imported |-> n] ELSE entries[k]]
    ELSE Append(entries, [file |-> f, rows_imported |-> n])

\* The mutant of df.head: the last n rows (df.tail).
DfTail(df, n) ==
    IF n >= 0 THEN SubSeq(df, (IF n < Len(df) THEN Len(df) - n ELSE 0) + 1, Len(df))
    ELSE SubSeq(df, 1 - n, Len(df))

\* df.head(n)
DfHead(df, n) ==
    IF n >= 0 THEN SubSeq(df, 1, IF n < Len(df) THEN n ELSE Len(df))
    ELSE SubSeq(df, 1, IF Len(df) + n > 0 THEN Len(df) + n ELSE 0)

\* ---------------------------------------------------------------- Init
NoUploadLog == [saved |-> FALSE, log |-> <<>>]
NoCrash == [boundary |-> FALSE, ledger |-> {}, completed |-> {}]

ProcIdle ==
    /\ pc = "idle" /\ import_type = "none"
    /\ imported_files = <<>> /\ current_rows = 0 /\ total_rows_inserted = 0
    /\ skipped_files = 0 /\ parquet_files = <<>> /\ idx = 1 /\ records = <<>>
    /\ upload_log = <<>>

HistInit ==
    /\ run_errors = FALSE /\ dirty_run = FALSE /\ deleted_run = FALSE /\ touched = FALSE
    /\ prev_run = "none" /\ recorded = {} /\ completed_run = {} /\ skipped_run = {}
    /\ crash_note = NoCrash /\ truncated_file = 0
    /\ insert_failed = [cur |-> {}, prev |-> {}]

PlanIdle ==
    /\ plan_pc = "off" /\ total_rows = 0 /\ num_cores = 1
    /\ i = 0 /\ start_id = 1 /\ chunks = <<>>

\* No uploader running, empty output_dir and manifest_dir.
NoManifest == [dir |-> "none", stem |-> "none", stamp |-> 0, ext |-> "none"]
NoStamp == 0 - 1
ResolveIdle ==
    /\ clock = 0 /\ dir_files = <<>> /\ latest_manifest = NoManifest /\ res_pc = "idle"
    /\ res_stamp = NoStamp

\* Nothing generated or converted yet: no chunk file, no manifest file.
StageIdle ==
    /\ results = <<>> /\ gen_idx = 1 /\ manifest = <<>> /\ gen_run = 1
    /\ excel_dir = <<>> /\ excel_manifests = <<>>
    /\ conv_pc = "off" /\ conv_files = <<>> /\ conv_idx = 1 /\ conv_manifest = <<>>
    /\ parquet_manifests = <<>> /\ conv_outcome = <<>>

Init ==
    /\ \E S \in SUBSET (1..MaxChunks) : parquet_dir \in [S -> 0..MaxRows]
    /\ sink = EmptyBag
    /\ import_manifest_file = NoFile
    /\ upload_manifest = NoUploadLog
    /\ ext_ops = 0
    /\ ProcIdle /\ HistInit /\ PlanIdle /\ StageIdle
    /\ row_limit = RowLimit /\ loaded_corrupt = FALSE /\ ResolveIdle


\* ------------------------------------------------------- process start
ResetRunHistory ==
    /\ run_errors' = FALSE /\ dirty_run' = FALSE /\ deleted_run' = FALSE /\ touched' = FALSE
    /\ completed_run' = {} /\ skipped_run' = {} /\ truncated_file' = 0

\* RDSImporterWrapper.import_data: LocalParquetImporter(row_limit), whose
\* __init__ loads the ledger.
StartImporter ==
    /\ pc = "idle"
    /\ import_type' = "RDS"
    /\ imported_files' = load_import_manifest
    /\ loaded_corrupt' = (import_manifest_file.exists /\ ~import_manifest_file.complete)
    /\ pc' = "begin"
    /\ ResetRunHistory
    /\ UNCHANGED <<durableVars, current_rows, total_rows_inserted, skipped_files,
                   parquet_files, idx, records, upload_log, ext_ops,
                   prev_run, recorded, crash_note, insert_failed, planVars, stageVars, resolveVars, row_limit>>

\* import_to_rds ending normally (return, break or the loop running out).
\* prev_run: "clean" when no chunk raised and no CRUD delete happened during the
\* run, "completed" otherwise; a later CRUD write or a kill makes it "none".
Completes ==
    prev_run' = IF run_errors \/ deleted_run THEN "completed" ELSE "clean"

\* A count that is not read from the table (mutant of count_rows).
count_rows_stale == current_rows

\* RDSTableHandler.count_rows
count_rows == BagCardinality(sink)

\* import_to_rds, lines 84-94: count_rows raises (the error propagates), or the
\* table is already full (return), or the directory is listed and the loop starts.
Begin ==
    /\ pc = "begin"
    /\ \/ /\ pc' = "raised"
          /\ prev_run' = "none"
          /\ UNCHANGED <<current_rows, parquet_files>>
       \/ /\ current_rows' = count_rows
          /\ IF count_rows >= row_limit
             THEN /\ pc' = "done" /\ Completes
                  /\ UNCHANGED parquet_files
             ELSE /\ pc' = "loop"
                  /\ parquet_files' = get_local_parquet_files
                  /\ UNCHANGED prev_run
    /\ total_rows_inserted' = 0 /\ skipped_files' = 0 /\ idx' = 1
    /\ touched' = FALSE
    /\ UNCHANGED <<durableVars, import_type, imported_files, records, upload_log,
                   ext_ops, run_errors, dirty_run, deleted_run, recorded,
                   completed_run, skipped_run, crash_note, insert_failed, truncated_file, planVars, stageVars, resolveVars, row_limit, loaded_corrupt>>

\* What a chunk's exception leads to: the except clause logs it and the loop
\* goes on.  The mutant lets it propagate.
ChunkErrorPropagates(loop_pc) == "raised"

ChunkErrorNext(loop_pc) == loop_pc

\* The mutant of the ledger check: no file counts as imported.
NeverImported(f) == FALSE

\* file_name in self.imported_files
IsImported(f) == f \in LedgerFiles(imported_files)

\* The mutant of the truncation: one row too many.
TruncateOneMore(df, remaining) == IF Len(df) > remaining THEN DfHead(df, remaining + 1) ELSE df

\* lines 118-120: remaining rows to reach row_limit.
Truncate(df, remaining) == IF Len(df) > remaining THEN DfHead(df, remaining) ELSE df

\* The mutant of the for statement: it stays on the same file.
SameFile(k) == k

\* Line 96, "for file_path in parquet_files": the next file of the list.
NextFile(k) == k + 1

\* One iteration of the loop up to insert_many, lines 96-122.
Visit ==
    /\ pc = "loop" /\ idx <= Len(parquet_files)
    /\ touched' = FALSE
    /\ LET f == parquet_files[idx]
           remaining == row_limit - (current_rows + total_rows_inserted)
       IN IF current_rows + total_rows_inserted >= row_limit
          THEN \* limit reached: break
               /\ pc' = "done" /\ Completes
               /\ UNCHANGED <<idx, skipped_files, records, run_errors, skipped_run,
                              truncated_file>>
          ELSE IF IsImported(f)
          THEN \* already imported: continue
               /\ skipped_files' = skipped_files + 1
               /\ skipped_run' = skipped_run \cup {f}
               /\ idx' = NextFile(idx)
               /\ UNCHANGED <<pc, prev_run, records, run_errors, truncated_file>>
          ELSE \/ \* pd.read_parquet raises
                  /\ run_errors' = TRUE
                  /\ pc' = ChunkErrorNext("loop")
                  /\ idx' = NextFile(idx)
                  /\ UNCHANGED <<prev_run, skipped_files, skipped_run, records,
                                 truncated_file>>
               \/ \* df.empty: continue
                  /\ parquet_dir[f] = 0
                  /\ idx' = NextFile(idx)
                  /\ UNCHANGED <<pc, prev_run, skipped_files, skipped_run, records,
                                 run_errors, truncated_file>>
               \/ \* the records to insert
                  /\ parquet_dir[f] > 0
                  /\ records' = Truncate(ChunkRows(f), remaining)
                  /\ truncated_file' =
                        IF parquet_dir[f] > remaining THEN f ELSE truncated_file
                  /\ pc' = "insert"
                  /\ UNCHANGED <<idx, prev_run, skipped_files, skipped_run, run_errors>>
    /\ UNCHANGED <<durableVars, import_type, imported_files, current_rows,
                   total_rows_inserted, parquet_files, upload_log, ext_ops,
                   dirty_run, deleted_run, recorded, completed_run, crash_note, insert_failed,
                   planVars, stageVars, resolveVars, row_limit, loaded_corrupt>>

\* The for loop running out of files, then the summary log line.
LoopEnd ==
    /\ pc = "loop" /\ idx > Len(parquet_files)
    /\ pc' = "done" /\ Completes
    /\ UNCHANGED <<durableVars, import_type, imported_files, current_rows,
                   total_rows_inserted, skipped_files, parquet_files, idx, records,
                   upload_log, ext_ops, run_errors, dirty_run, deleted_run, touched,
                   recorded,
                   completed_run, skipped_run, crash_note, insert_failed, truncated_file, planVars, stageVars, resolveVars, row_limit, loaded_corrupt>>

\* The mutant of the rollback: the first row of the failed batch stays.
PartialInsert(table, rows) == table (+) SetToBag({rows[1]})

\* RDSTableHandler.insert_many, lines 114-117: session.rollback() and re-raise;
\* the table is as it was before the call.
Rollback(table, rows) == table

\* RDSTableHandler.insert_many: commit and return len(rows), or rollback and
\* raise (caught at line 135); then total_rows_inserted += inserted.
InsertMany ==
    /\ pc = "insert"
    /\ \/ /\ sink' = sink (+) SetToBag({records[k] : k \in 1..Len(records)})
          /\ total_rows_inserted' = total_rows_inserted + Len(records)
          /\ pc' = "open"
          /\ UNCHANGED <<idx, run_errors, insert_failed>>
       \/ /\ sink' = Rollback(sink, records)
          /\ run_errors' = TRUE
          /\ insert_failed' = [insert_failed EXCEPT !.cur = @ \cup {parquet_files[idx]}]
          /\ pc' = ChunkErrorNext("loop")
          /\ idx' = NextFile(idx)
          /\ UNCHANGED total_rows_inserted
    /\ UNCHANGED <<parquet_dir, import_manifest_file, upload_manifest, import_type,
                   imported_files, current_rows, skipped_files, parquet_files,
                   records, upload_log, ext_ops, dirty_run, deleted_run, touched, prev_run,
                   recorded, completed_run, skipped_run, crash_note, truncated_file,
                   planVars, stageVars, resolveVars, row_limit, loaded_corrupt>>

\* update_import_manifest, lines 62-67: the entry is set in memory and
\* open(..., "w") truncates the ledger file.
UpdateOpen ==
    /\ pc = "open"
    /\ imported_files' = SetEntry(imported_files, parquet_files[idx], Len(records))
    /\ import_manifest_file' = [exists |-> TRUE, complete |-> FALSE, entries |-> <<>>]
    /\ pc' = "dump"
    /\ UNCHANGED <<parquet_dir, sink, upload_manifest, import_type, current_rows,
                   total_rows_inserted, skipped_files, parquet_files, idx, records,
                   upload_log, ext_ops, histVars, planVars, stageVars, resolveVars, row_limit, loaded_corrupt>>

\* update_import_manifest, line 68, and the limit check of lines 131-133.
UpdateDump ==
    /\ pc = "dump"
    /\ import_manifest_file' =
          [exists |-> TRUE, complete |-> TRUE, entries |-> imported_files]
    /\ recorded' = recorded \cup LedgerFiles(imported_files)
    /\ completed_run' = completed_run \cup {parquet_files[idx]}
    /\ IF current_rows + total_rows_inserted >= row_limit
       THEN /\ pc' = "done" /\ Completes
            /\ UNCHANGED idx
       ELSE /\ pc' = "loop"
            /\ idx' = NextFile(idx)
            /\ UNCHANGED prev_run
    /\ UNCHANGED <<parquet_dir, sink, upload_manifest, import_type, imported_files,
                   current_rows, total_rows_inserted, skipped_files, parquet_files,
                   records, upload_log, ext_ops, run_errors, dirty_run, deleted_run,
                   touched, skipped_run, crash_note, insert_failed, truncated_file, planVars, stageVars, resolveVars, row_limit, loaded_corrupt>>


\* ------------------------------------------------------ object-store path
\* The manifest of the conversion run, one entry per chunk in chunk order
\* (convert_chunks_to_parquet appends while enumerating from 1).
ParquetManifest == [k \in 1..MaxChunks |-> k]

\* S3ImporterWrapper.import_data: S3Uploader(), get_latest_manifest and the
\* head of upload_file_from_manifest (the manifest is read, the log is empty).
StartUploader ==
    /\ pc = "idle"
    /\ import_type' = "S3"
    /\ pc' = "s3loop"
    /\ idx' = 1
    /\ upload_log' = <<>>
    /\ loaded_corrupt' = FALSE
    /\ ResetRunHistory
    /\ UNCHANGED <<durableVars, imported_files, current_rows, total_rows_inserted,
                   skipped_files, parquet_files, records, ext_ops,
                   prev_run, recorded, crash_note, insert_failed, planVars, stageVars, resolveVars, row_limit>>

\* One manifest entry, lines 71-91: the file is missing (continue), or it is
\* uploaded and logged, or upload_file raises (caught, logged).
UploadEntry ==
    /\ pc = "s3loop" /\ idx <= Len(ParquetManifest)
    /\ LET f == ParquetManifest[idx]
       IN \/ /\ f \notin DOMAIN parquet_dir
             /\ UNCHANGED <<pc, upload_log, run_errors>>
          \/ /\ f \in DOMAIN parquet_dir
             /\ upload_log' = Append(upload_log, f)
             /\ UNCHANGED <<pc, run_errors>>
          \/ /\ f \in DOMAIN parquet_dir
             /\ run_errors' = TRUE
             /\ pc' = ChunkErrorNext("s3loop")
             /\ UNCHANGED upload_log
    /\ idx' = idx + 1
    /\ UNCHANGED <<durableVars, import_type, imported_files, current_rows,
                   total_rows_inserted, skipped_files, parquet_files, records,
                   ext_ops, dirty_run, deleted_run, touched, prev_run, recorded,
                   completed_run, skipped_run, crash_note, insert_failed, truncated_file, planVars, stageVars, resolveVars, row_limit, loaded_corrupt>>

\* Lines 93-107: the manifest file is uploaded (a failure is only logged) and
\* the upload log is saved locally.
SaveUploadLog ==
    /\ pc = "s3loop" /\ idx > Len(ParquetManifest)
    /\ upload_manifest' = [saved |-> TRUE, log |-> upload_log]
    /\ pc' = "done"
    /\ UNCHANGED <<parquet_dir, sink, import_manifest_file, import_type,
                   imported_files, current_rows, total_rows_inserted, skipped_files,
                   parquet_files, idx, records, upload_log, ext_ops, histVars,
                   planVars, stageVars, resolveVars, row_limit, loaded_corrupt>>

\* --------------------------------------------------- process end and kill
ProcReset ==
    /\ pc' = "idle" /\ import_type' = "none"
    /\ imported_files' = <<>> /\ current_rows' = 0 /\ total_rows_inserted' = 0
    /\ skipped_files' = 0 /\ parquet_files' = <<>> /\ idx' = 1 /\ records' = <<>>
    /\ upload_log' = <<>>

\* The import process is gone: its failed inserts are those of the run before
\* the next one.
RunOver ==
    IF import_type = "RDS" THEN [cur |-> {}, prev |-> insert_failed.cur]
    ELSE insert_failed

\* The process exits (main returns, or sys.exit(1) after the exception).
Exit ==
    /\ pc \in {"done", "raised"}
    /\ ProcReset
    /\ ResetRunHistory
    /\ crash_note' = IF import_type = "RDS" THEN NoCrash ELSE crash_note
    /\ insert_failed' = RunOver
    /\ upload_manifest' = NoUploadLog
    /\ loaded_corrupt' = FALSE
    /\ UNCHANGED <<parquet_dir, sink, import_manifest_file, ext_ops, prev_run,
                   recorded, planVars, stageVars, resolveVars, row_limit>>

\* The process is killed.  Its memory is lost; a ledger file that was being
\* written keeps some prefix of the entries json.dump was writing, without
\* the closing bracket.
Kill ==
    /\ pc \in {"begin", "loop", "insert", "open", "dump", "s3loop"}
    /\ IF pc = "dump"
       THEN \E k \in 0..Len(imported_files) :
               import_manifest_file' =
                  [exists |-> TRUE, complete |-> FALSE,
                   entries |-> SubSeq(imported_files, 1, k)]
       ELSE UNCHANGED import_manifest_file
    /\ crash_note' =
          IF import_type # "RDS" THEN crash_note
          ELSE IF pc = "loop"
          THEN [boundary |-> TRUE, ledger |-> LedgerFiles(imported_files),
                completed |-> completed_run]
          ELSE NoCrash
    /\ prev_run' = IF import_type = "RDS" THEN "none" ELSE prev_run
    /\ insert_failed' = RunOver
    /\ ProcReset
    /\ ResetRunHistory
    /\ loaded_corrupt' = FALSE
    /\ UNCHANGED <<parquet_dir, sink, upload_manifest, ext_ops, recorded, planVars, stageVars, resolveVars, row_limit>>

\* --------------------------------------------------------- external writer
ExternalWrite ==
    /\ ext_ops' = ext_ops + 1
    /\ dirty_run' = TRUE
    /\ touched' = TRUE
    /\ prev_run' = "none"
    /\ UNCHANGED <<parquet_dir, import_manifest_file, upload_manifest, pc, import_type,
                   imported_files, current_rows, total_rows_inserted, skipped_files,
                   parquet_files, idx, records, upload_log, run_errors, recorded,
                   completed_run, skipped_run, crash_note, insert_failed, truncated_file, planVars, stageVars, resolveVars, row_limit, loaded_corrupt>>

\* POST /items: RDSTableHandler.create adds one row.
CreateItem ==
    /\ ext_ops < MaxExternalOps
    /\ sink' = sink (+) SetToBag({<<0, 0>>})
    /\ UNCHANGED deleted_run
    /\ ExternalWrite

\* DELETE /items/{item_id}: RDSTableHandler.delete removes the row of that id.
DeleteItem ==
    /\ ext_ops < MaxExternalOps
    /\ \E row \in BagToSet(sink) : sink' = sink (-) SetToBag({row})
    /\ deleted_run' = TRUE
    /\ ExternalWrite

\* ------------------------------------------------------------------ Spec
Next ==
    \/ StartImporter \/ Begin \/ Visit \/ LoopEnd \/ InsertMany
    \/ UpdateOpen \/ UpdateDump
    \/ StartUploader \/ UploadEntry \/ SaveUploadLog
    \/ Exit \/ Kill \/ CreateItem \/ DeleteItem

Spec == Init /\ [][Next]_vars


\* One run of the same importer over the directory of one conversion run of n
\* chunks of one row each, without kills and without the CRUD endpoints.
InitOrder ==
    /\ \E n \in 1..MaxOrderChunks : parquet_dir = [f \in 1..n |-> 1]
    /\ sink = EmptyBag
    /\ import_manifest_file = NoFile
    /\ upload_manifest = NoUploadLog
    /\ ext_ops = 0
    /\ ProcIdle /\ HistInit /\ PlanIdle /\ StageIdle
    /\ row_limit = RowLimit /\ loaded_corrupt = FALSE /\ ResolveIdle

NextOrder ==
    \/ StartImporter \/ Begin \/ Visit \/ LoopEnd \/ InsertMany
    \/ UpdateOpen \/ UpdateDump

SpecOrder == InitOrder /\ [][NextOrder]_vars

\* ------------------------------------------------ generate_data_parallel
\* The mutant of the remainder test: i <= remainder.
RowsInChunkOffByOne(base_rows, remainder, k) == base_rows + (IF k <= remainder THEN 1 ELSE 0)

\* rows_in_chunk = base_rows + (1 if i < remainder else 0)
RowsInChunk(base_rows, remainder, k) == base_rows + (IF k < remainder THEN 1 ELSE 0)

base_rows == total_rows \div num_cores
remainder == total_rows % num_cores

InitPlan ==
    /\ total_rows \in 0..MaxTotalRows
    /\ num_cores \in 1..MaxCores
    /\ plan_pc = "plan" /\ i = 0 /\ start_id = 1 /\ chunks = <<>>
    /\ parquet_dir = <<>> /\ sink = EmptyBag
    /\ import_manifest_file = NoFile /\ upload_manifest = NoUploadLog
    /\ ext_ops = 0
    /\ ProcIdle /\ HistInit /\ StageIdle
    /\ row_limit = RowLimit /\ loaded_corrupt = FALSE /\ ResolveIdle

\* One iteration of "for i in range(num_cores)", lines 65-68.
PlanChunk ==
    /\ plan_pc = "plan" /\ i < num_cores
    /\ LET rows_in_chunk == RowsInChunk(base_rows, remainder, i)
       IN /\ chunks' = Append(chunks, <<start_id, rows_in_chunk>>)
          /\ start_id' = start_id + rows_in_chunk
    /\ i' = i + 1
    /\ UNCHANGED <<plan_pc, total_rows, num_cores, durableVars, procVars, histVars,
                   stageVars, resolveVars, row_limit, loaded_corrupt>>

\* The loop is over: the chunks are handed to the pool.
PlanDone ==
    /\ plan_pc = "plan" /\ i = num_cores
    /\ plan_pc' = "planned"
    /\ UNCHANGED <<total_rows, num_cores, i, start_id, chunks, durableVars, procVars,
                   histVars, stageVars, resolveVars, row_limit, loaded_corrupt>>

NextPlan == PlanChunk \/ PlanDone

SpecPlan == InitPlan /\ [][NextPlan]_vars


\* ------------------------------------------- the producing stages, end to end
impVars == <<sink, import_manifest_file, upload_manifest, procVars, histVars,
             resolveVars, row_limit, loaded_corrupt>>
convVars == <<conv_pc, conv_files, conv_idx, conv_manifest, parquet_manifests, conv_outcome>>

\* Names of manifest files: the timestamped copy of a run and the fixed-name
\* "latest" file.
Stamped(run) == <<"ts", run>>
Latest == <<"latest", 0>>

\* The mutant of the end of a writing loop: over as soon as it has started.
LoopStarted(k, n) == k >= 1

\* "for idx, x in enumerate(xs, start=1)" has run out.
LoopOver(k, n) == k > n

\* Line 72: pool.starmap returns every worker's frame, or re-raises the
\* exception of a worker that failed, and generate_data_parallel ends there.
Starmap ==
    /\ plan_pc = "planned"
    /\ \/ /\ results' = chunks
          /\ plan_pc' = "write"
       \/ /\ plan_pc' = "worker_failed"
          /\ UNCHANGED results
    /\ gen_idx' = 1 /\ manifest' = <<>>
    /\ UNCHANGED <<total_rows, num_cores, i, start_id, chunks, gen_run, excel_dir,
                   excel_manifests, convVars, parquet_dir, impVars>>

\* One iteration of lines 79-92: the chunk is written and listed, or to_excel
\* raises (with or without the file left on disk) and the run ends.
WriteExcel ==
    /\ plan_pc = "write" /\ ~LoopOver(gen_idx, Len(results))
    /\ \/ /\ excel_dir' = (<<gen_run, gen_idx>> :> results[gen_idx]) @@ excel_dir
          /\ manifest' = Append(manifest,
                                [chunk_id |-> gen_idx, rows |-> results[gen_idx][2]])
          /\ gen_idx' = gen_idx + 1
          /\ UNCHANGED plan_pc
       \/ /\ plan_pc' = "write_failed"
          /\ \/ UNCHANGED excel_dir
             \/ excel_dir' = (<<gen_run, gen_idx>> :> results[gen_idx]) @@ excel_dir
          /\ UNCHANGED <<manifest, gen_idx>>
    /\ UNCHANGED <<total_rows, num_cores, i, start_id, chunks, results, gen_run,
                   excel_manifests, convVars, parquet_dir, impVars>>

\* Lines 94-96: the timestamped manifest of the run.
WriteManifest ==
    /\ plan_pc = "write" /\ LoopOver(gen_idx, Len(results))
    /\ excel_manifests' =
          (Stamped(gen_run) :> [run |-> gen_run, entries |-> manifest]) @@ excel_manifests
    /\ plan_pc' = "latest"
    /\ UNCHANGED <<total_rows, num_cores, i, start_id, chunks, results, gen_idx,
                   manifest, gen_run, excel_dir, convVars, parquet_dir, impVars>>

\* Lines 98-99: excel_manifest_latest.json is overwritten with the same list.
WriteLatest ==
    /\ plan_pc = "latest"
    /\ excel_manifests' =
          (Latest :> [run |-> gen_run, entries |-> manifest]) @@ excel_manifests
    /\ plan_pc' = "gendone"
    /\ UNCHANGED <<total_rows, num_cores, i, start_id, chunks, results, gen_idx,
                   manifest, gen_run, excel_dir, convVars, parquet_dir, impVars>>

\* The generator process is killed.
GenKill ==
    /\ plan_pc \in {"plan", "planned", "write", "latest"}
    /\ plan_pc' = IF plan_pc = "latest" THEN "killed_late" ELSE "killed"
    /\ UNCHANGED <<total_rows, num_cores, i, start_id, chunks, stageVars,
                   parquet_dir, impVars>>

\* data_generation.py is run again: a new timestamp, the same configuration.
StartGenerator ==
    /\ plan_pc \in {"gendone", "worker_failed", "write_failed", "killed", "killed_late"}
    /\ gen_run < MaxGenRuns
    /\ gen_run' = gen_run + 1
    /\ plan_pc' = "plan" /\ i' = 0 /\ start_id' = 1 /\ chunks' = <<>>
    /\ results' = <<>> /\ gen_idx' = 1 /\ manifest' = <<>>
    /\ UNCHANGED <<total_rows, num_cores, excel_dir, excel_manifests, convVars,
                   parquet_dir, impVars>>

\* convert_to_parquet.py, lines 74-85 and 28-33: the latest Excel manifest is
\* read and its files are handed to convert_chunks_to_parquet.  (Without that
\* manifest the script prints the error and changes nothing.)  The output
\* directory is followed through one conversion run, whose timestamp is
\* RunStamp.
StartConverter ==
    /\ conv_pc = "off"
    /\ Latest \in DOMAIN excel_manifests
    /\ LET m == excel_manifests[Latest]
       IN conv_files' = [k \in 1..Len(m.entries) |-> <<m.run, m.entries[k].chunk_id>>]
    /\ conv_pc' = "convert" /\ conv_idx' = 1 /\ conv_manifest' = <<>>
    /\ conv_outcome' = <<>>
    /\ UNCHANGED <<parquet_manifests, planVars, results, gen_idx, manifest, gen_run,
                   excel_dir, excel_manifests, parquet_dir, impVars>>

\* The mutant of the except clause: the failed chunk is listed with no rows.
ConversionPlaceholder(m, k) == Append(m, [chunk_id |-> k, rows |-> 0])

\* Lines 58-59: the except clause prints the error; the manifest list is as it
\* was.
ConversionFailed(m, k) == m

\* One iteration of lines 35-59: read_excel raises (caught), or the frame is
\* empty (continue), or the Parquet file is written and listed, or lines 44-54
\* raise part-way (caught): then the file is absent or it is on disk, and the
\* manifest does not list it.  (A file cut short has no footer, so reading it
\* raises: Visit has that outcome for every file.)
ConvertChunk ==
    /\ conv_pc = "convert" /\ ~LoopOver(conv_idx, Len(conv_files))
    /\ LET rows == excel_dir[conv_files[conv_idx]][2]
       IN \/ /\ conv_manifest' = ConversionFailed(conv_manifest, conv_idx)
             /\ conv_outcome' = Append(conv_outcome, "failed")
             /\ UNCHANGED parquet_dir
          \/ /\ rows = 0
             /\ conv_outcome' = Append(conv_outcome, "empty")
             /\ UNCHANGED <<parquet_dir, conv_manifest>>
          \/ /\ rows > 0
             /\ parquet_dir' = (conv_idx :> rows) @@ parquet_dir
             /\ conv_manifest' = Append(conv_manifest, [chunk_id |-> conv_idx, rows |-> rows])
             /\ conv_outcome' = Append(conv_outcome, "written")
          \/ /\ rows > 0
             /\ parquet_dir' = (conv_idx :> rows) @@ parquet_dir
             /\ conv_manifest' = ConversionFailed(conv_manifest, conv_idx)
             /\ conv_outcome' = Append(conv_outcome, "failed")
    /\ conv_idx' = conv_idx + 1
    /\ UNCHANGED <<conv_pc, conv_files, parquet_manifests, planVars, results, gen_idx,
                   manifest, gen_run, excel_dir, excel_manifests, impVars>>

\* Lines 61-63: the manifest of the conversion run.
WriteParquetManifest ==
    /\ conv_pc = "convert" /\ LoopOver(conv_idx, Len(conv_files))
    /\ parquet_manifests' =
          (Stamped(1) :> [run |-> 1, entries |-> conv_manifest]) @@ parquet_manifests
    /\ conv_pc' = "convdone"
    /\ UNCHANGED <<conv_files, conv_idx, conv_manifest, conv_outcome, planVars, results, gen_idx,
                   manifest, gen_run, excel_dir, excel_manifests, parquet_dir, impVars>>

\* The converter process is killed.
ConvKill ==
    /\ conv_pc = "convert"
    /\ conv_pc' = "killed"
    /\ UNCHANGED <<conv_files, conv_idx, conv_manifest, parquet_manifests, conv_outcome,
                   planVars,
                   results, gen_idx, manifest, gen_run, excel_dir, excel_manifests,
                   parquet_dir, impVars>>

\* Generation, conversion and ingestion over one file system, from empty
\* directories and an empty sink. The generator may be re-run; the converter
\* and the importer are each run once.
InitPipeline ==
    /\ total_rows \in 0..MaxPipeRows
    /\ num_cores \in 1..MaxPipeCores
    /\ plan_pc = "plan" /\ i = 0 /\ start_id = 1 /\ chunks = <<>>
    /\ parquet_dir = <<>> /\ sink = EmptyBag
    /\ import_manifest_file = NoFile /\ upload_manifest = NoUploadLog
    /\ ext_ops = 0
    /\ ProcIdle /\ HistInit /\ StageIdle
    /\ row_limit = RowLimit /\ loaded_corrupt = FALSE /\ ResolveIdle

NextPipeline ==
    \/ PlanChunk \/ PlanDone \/ Starmap \/ WriteExcel \/ WriteManifest \/ WriteLatest
    \/ GenKill \/ StartGenerator
    \/ StartConverter \/ ConvertChunk \/ WriteParquetManifest \/ ConvKill
    \/ StartImporter \/ Begin \/ Visit \/ LoopEnd \/ InsertMany
    \/ UpdateOpen \/ UpdateDump

SpecPipeline == InitPipeline /\ [][NextPipeline]_vars

\* The end-to-end scenario: 10 rows, 3 workers, row_limit 5.
InitE2E ==
    /\ total_rows = 10
    /\ num_cores = 3
    /\ plan_pc = "plan" /\ i = 0 /\ start_id = 1 /\ chunks = <<>>
    /\ parquet_dir = <<>> /\ sink = EmptyBag
    /\ import_manifest_file = NoFile /\ upload_manifest = NoUploadLog
    /\ ext_ops = 0
    /\ ProcIdle /\ HistInit /\ StageIdle
    /\ row_limit = 5 /\ loaded_corrupt = FALSE /\ ResolveIdle

\* The scenario's stages, without kills and without a second generation run.
NextE2E ==
    \/ PlanChunk \/ PlanDone \/ Starmap \/ WriteExcel \/ WriteManifest \/ WriteLatest
    \/ StartConverter \/ ConvertChunk \/ WriteParquetManifest
    \/ StartImporter \/ Begin \/ Visit \/ LoopEnd \/ InsertMany
    \/ UpdateOpen \/ UpdateDump \/ Exit

SpecE2E == InitE2E /\ [][NextE2E]_vars

\* The pipeline run on an empty input: num_rows = 0.  The input directory of the
\* importer holds whatever chunk files were put there before, empty ones among
\* them.
InitEmpty ==
    /\ total_rows = 0
    /\ num_cores \in 1..MaxPipeCores
    /\ plan_pc = "plan" /\ i = 0 /\ start_id = 1 /\ chunks = <<>>
    /\ \E S \in SUBSET (1..MaxPipeCores) : parquet_dir \in [S -> 0..MaxRows]
    /\ sink = EmptyBag
    /\ import_manifest_file = NoFile /\ upload_manifest = NoUploadLog
    /\ ext_ops = 0
    /\ ProcIdle /\ HistInit /\ StageIdle
    /\ row_limit = RowLimit /\ loaded_corrupt = FALSE /\ ResolveIdle

SpecEmpty == InitEmpty /\ [][NextE2E]_vars

\* ------------------------------------------------- manifest resolution
\* A file of output_dir or manifest_dir: <stem><stamp>.<ext>, the stamp being the
\* second of a "%Y%m%d_%H%M%S" timestamp.
File(dir, stem, stamp, ext) == [dir |-> dir, stem |-> stem, stamp |-> stamp, ext |-> ext]
Timestamp == clock \div TicksPerSecond

\* Path.glob("*manifest_*.json"): the stem ends in "manifest_" and the suffix is
\* ".json". The chunk files converted_chunk_<idx>_<ts>.parquet do not match.
MatchesManifestPattern(f) ==
    /\ f.stem \in {"converted_chunk_manifest_", "upload_manifest_"}
    /\ f.ext = "json"

Glob(dir) == {f \in DOMAIN dir_files : f.dir = dir /\ MatchesManifestPattern(f)}

\* sorted(files, key=lambda f: f.stat().st_mtime): the orderings of the files by
\* ascending st_mtime; files of equal st_mtime keep the order of the listing,
\* which is any order.
SortedByMtime(files) ==
    {sq \in [1..Cardinality(files) -> files] :
        /\ \A a, b \in 1..Cardinality(files) : a # b => sq[a] # sq[b]
        /\ \A a, b \in 1..Cardinality(files) : a < b => dir_files[sq[a]] <= dir_files[sq[b]]}

manifests_first == {sq[1] : sq \in SortedByMtime(Glob("output_dir"))}

\* manifests[-1] of get_latest_manifest, for a listing that is not empty.
manifests_last ==
    {sq[Len(sq)] : sq \in SortedByMtime(Glob("output_dir"))}

\* Time passes.
Tick ==
    /\ clock < MaxClock
    /\ clock' = clock + 1
    /\ UNCHANGED <<dir_files, latest_manifest, res_pc, res_stamp, durableVars, procVars,
                   histVars, planVars, stageVars, row_limit, loaded_corrupt>>

\* convert_chunks_to_parquet, line 32: the run takes its timestamp.
TakeTimestamp ==
    /\ res_stamp = NoStamp
    /\ res_stamp' = Timestamp
    /\ UNCHANGED <<clock, dir_files, latest_manifest, res_pc, durableVars, procVars,
                   histVars, planVars, stageVars, row_limit, loaded_corrupt>>

\* lines 43-44: a chunk file is written under the run's timestamp.
ToParquet ==
    /\ res_stamp # NoStamp
    /\ dir_files' = (File("output_dir", "converted_chunk_1_", res_stamp, "parquet") :> clock)
                        @@ dir_files
    /\ UNCHANGED <<clock, latest_manifest, res_pc, res_stamp, durableVars, procVars,
                   histVars, planVars, stageVars, row_limit, loaded_corrupt>>

\* lines 61-66: the manifest is written under the run's timestamp; the run ends.
DumpManifest ==
    /\ res_stamp # NoStamp
    /\ dir_files' = (File("output_dir", "converted_chunk_manifest_", res_stamp, "json") :> clock)
                        @@ dir_files
    /\ res_stamp' = NoStamp
    /\ UNCHANGED <<clock, latest_manifest, res_pc, durableVars, procVars,
                   histVars, planVars, stageVars, row_limit, loaded_corrupt>>

\* upload_aws.py, line 113 and lines 54-61: get_latest_manifest.
GetLatestManifest ==
    /\ res_pc = "idle"
    /\ IF Glob("output_dir") = {}
          THEN res_pc' = "FileNotFoundError" /\ latest_manifest' = NoManifest
          ELSE res_pc' = "resolved" /\ latest_manifest' \in manifests_last
    /\ UNCHANGED <<clock, dir_files, res_stamp, durableVars, procVars,
                   histVars, planVars, stageVars, row_limit, loaded_corrupt>>

\* upload_file_from_manifest, lines 101-107: the run ends by saving its upload
\* log upload_manifest_<ts>.json in manifest_dir.
SaveLogFile ==
    /\ res_pc = "resolved"
    /\ dir_files' = (File("manifest_dir", "upload_manifest_", Timestamp, "json") :> clock)
                        @@ dir_files
    /\ res_pc' = "saved"
    /\ UNCHANGED <<clock, latest_manifest, res_stamp, durableVars, procVars,
                   histVars, planVars, stageVars, row_limit, loaded_corrupt>>

\* lines 116-120: the uploader process ends.
ExitUploader ==
    /\ res_pc \in {"saved", "FileNotFoundError"}
    /\ res_pc' = "idle" /\ latest_manifest' = NoManifest
    /\ UNCHANGED <<clock, dir_files, res_stamp, durableVars, procVars,
                   histVars, planVars, stageVars, row_limit, loaded_corrupt>>

InitResolve ==
    /\ parquet_dir = <<>> /\ sink = EmptyBag
    /\ import_manifest_file = NoFile /\ upload_manifest = NoUploadLog
    /\ ext_ops = 0
    /\ ProcIdle /\ HistInit /\ PlanIdle /\ StageIdle
    /\ row_limit = RowLimit /\ loaded_corrupt = FALSE /\ ResolveIdle

NextResolve ==
    \/ Tick \/ TakeTimestamp \/ ToParquet \/ DumpManifest
    \/ GetLatestManifest \/ SaveLogFile \/ ExitUploader

SpecResolve == InitResolve /\ [][NextResolve]_vars


\* -------------------------------------------------------- termination
\* The statements of a running import_to_rds.  Every call it makes (the count,
\* the listing, a read, an insert, the ledger write) returns or raises, so a
\* process that is not killed always takes its next step.
ImporterStep == Begin \/ Visit \/ LoopEnd \/ InsertMany \/ UpdateOpen \/ UpdateDump

NextRun ==
    \/ StartImporter \/ Begin \/ Visit \/ LoopEnd \/ InsertMany
    \/ UpdateOpen \/ UpdateDump \/ Exit \/ Kill

SpecRun == Init /\ [][NextRun]_vars /\ WF_vars(ImporterStep)

\* ============================================================ properties
InImport == import_type = "RDS" /\ pc \in {"loop", "insert", "open", "dump", "done"}
CurrentFile == parquet_files[idx]
HasCurrentFile == idx <= Len(parquet_files)

\* C1: in a run of import_to_rds that found the sink below row_limit and during
\* which no other writer touched the sink, the sink never holds more than
\* row_limit rows: not after any chunk's insert and not at the end of the run.
C1_QuotaInvariant ==
    (InImport /\ ~dirty_run /\ current_rows < RowLimit)
        => /\ count_rows <= RowLimit
           /\ count_rows = current_rows + total_rows_inserted

\* A run that started from a sink that was not empty ends with the sink exactly
\* full after truncating a chunk.
C1_Witness ==
    /\ import_type = "RDS" /\ pc = "done" /\ ~dirty_run
    /\ 0 < current_rows /\ current_rows < RowLimit
    /\ truncated_file \in completed_run
    /\ count_rows = RowLimit

C3_NeverReingested ==
    (import_type = "RDS" /\ pc = "insert") => CurrentFile \notin recorded

\* The rows a truncating iteration has to insert: the first `remaining` rows of
\* the file, where `remaining` is what the run's own count leaves of row_limit.
RemainingBefore ==
    RowLimit - current_rows
        - (IF pc = "insert" THEN total_rows_inserted ELSE total_rows_inserted - Len(records))
PrefixOfCurrent == SubSeq(ChunkRows(CurrentFile), 1, RemainingBefore)

\* C4 as stated: once a chunk has more rows than the remaining quota, exactly its
\* first `remaining` rows are inserted and the run goes to no further chunk.
C4_Truncation_Original ==
    (import_type = "RDS" /\ truncated_file # 0)
        => /\ HasCurrentFile /\ CurrentFile = truncated_file
           /\ records = PrefixOfCurrent
           /\ pc = "done" => truncated_file \in completed_run

\* C4 amended: a chunk with more rows than the remaining quota is cut to its
\* first `remaining` rows before insert_many; when that insert succeeds exactly
\* those rows are inserted, the quota is used up and the run goes to no further
\* chunk; when it fails the chunk gets no ledger entry and the run goes on to
\* the next chunk.
C4_Truncation ==
    /\ (import_type = "RDS" /\ pc \in {"insert", "open", "dump"}
            /\ CurrentFile = truncated_file)
          => /\ records = PrefixOfCurrent
             /\ Len(records) < parquet_dir[CurrentFile]
    /\ (import_type = "RDS" /\ pc \in {"open", "dump"} /\ CurrentFile = truncated_file)
          => /\ current_rows + total_rows_inserted = RowLimit
             /\ ~dirty_run => \A k \in 1..Len(records) : BagIn(records[k], sink)
    /\ (import_type = "RDS" /\ truncated_file \in completed_run)
          => /\ pc = "done" /\ HasCurrentFile /\ CurrentFile = truncated_file
             /\ current_rows + total_rows_inserted = RowLimit
    /\ (import_type = "RDS" /\ truncated_file # 0 /\ truncated_file \notin completed_run
            /\ pc \in {"loop", "done"})
          => /\ run_errors
             /\ truncated_file \notin LedgerFiles(imported_files)

\* A two-row chunk was cut to its first row, inserted and flushed, and the run
\* ended there although another file follows.
C4_Witness ==
    /\ import_type = "RDS" /\ pc = "done"
    /\ truncated_file \in completed_run
    /\ Len(records) >= 1
    /\ idx < Len(parquet_files)


\* C6: after a kill at a chunk boundary (the last chunk's rows committed and the
\* ledger flushed, the next chunk not started), the restarted importer holds
\* every ledger entry the killed process had, skips exactly those files when it
\* reaches them, never hands one of them to insert_many, and takes up every
\* other file (the next chunk first) as a file not imported yet.
C6_CrashRecovery ==
    (crash_note.boundary /\ import_type = "RDS" /\ pc # "idle")
        => /\ crash_note.completed \subseteq LedgerFiles(imported_files)
           /\ crash_note.ledger \subseteq LedgerFiles(imported_files)
           /\ pc \in {"insert", "open", "dump"} => CurrentFile \notin crash_note.ledger
           /\ skipped_run \subseteq crash_note.ledger
           /\ \A k \in 1..Len(parquet_files) :
                 (k < idx /\ parquet_files[k] \in crash_note.ledger)
                     => parquet_files[k] \in skipped_run

\* The process was killed after it had completed a chunk; the restarted run
\* skipped that chunk and has imported another one.
C6_Witness ==
    /\ crash_note.boundary /\ import_type = "RDS" /\ pc = "done"
    /\ crash_note.completed # {}
    /\ crash_note.completed \subseteq skipped_run
    /\ completed_run # {}
    /\ completed_run \cap crash_note.ledger = {}

\* C7: whenever no importer is running (so after any kill), the ledger file is
\* either absent or a complete ledger, and it still holds every entry that a
\* completed flush had written.
C7_AtomicLedger ==
    pc = "idle"
        => /\ import_manifest_file.exists => import_manifest_file.complete
           /\ recorded \subseteq LedgerFiles(load_import_manifest)

\* C8: a chunk's insert for which no other writer touched the sink between the
\* loop-head check and the insert never leaves the sink above row_limit.
C8_QuotaRecheckedPerChunk ==
    (import_type = "RDS" /\ pc = "open" /\ ~touched) => count_rows <= RowLimit

\* C9: a run ends normally, never by a chunk's exception: the relational path
\* ends with every listed file visited or with the quota reached, the
\* object-store path with every manifest entry visited, and a run that raised
\* did so before its first chunk.
C9_FailureIsolation ==
    /\ (pc = "done" /\ import_type = "RDS")
          => \/ idx > Len(parquet_files)
             \/ current_rows + total_rows_inserted >= RowLimit
    /\ (pc = "done" /\ import_type = "S3") => idx > Len(ParquetManifest)
    /\ pc = "raised" => (~run_errors /\ idx = 1)

\* A run whose first file failed and whose second file was imported, or an
\* upload run whose first upload failed and whose log holds a later file.
C9_Witness ==
    /\ pc = "done" /\ run_errors
    /\ \/ /\ import_type = "RDS"
          /\ Len(parquet_files) >= 2
          /\ parquet_dir[parquet_files[1]] > 0
          /\ parquet_files[1] \notin LedgerFiles(imported_files)
          /\ parquet_files[2] \in completed_run
       \/ /\ import_type = "S3"
          /\ 1 \in DOMAIN parquet_dir
          /\ upload_manifest.saved
          /\ upload_manifest.log = <<2, 3>>

\* C10: import_to_rds visits the chunk files in manifest order, that is in
\* ascending chunk ordinal.
C10_ManifestOrder ==
    \A a, b \in 1..Len(parquet_files) : a < b => parquet_files[a] < parquet_files[b]

\* C5: the ranges built by generate_data_parallel are num_cores ranges, the
\* first starting at 1, each starting where the one before ends, pairwise
\* disjoint, covering exactly 1..total_rows, with sizes that differ by at most
\* one, the first (total_rows mod num_cores) ranges holding the extra row; they
\* are a function of total_rows and num_cores alone.
RangeOf(c) == c[1]..(c[1] + c[2] - 1)
MinOf(a, b) == IF a < b THEN a ELSE b

C5_Partitioning ==
    plan_pc = "planned"
        => /\ Len(chunks) = num_cores
           /\ chunks[1][1] = 1
           /\ \A k \in 1..(num_cores - 1) : chunks[k + 1][1] = chunks[k][1] + chunks[k][2]
           /\ \A a, b \in 1..num_cores : a # b => RangeOf(chunks[a]) \cap RangeOf(chunks[b]) = {}
           /\ UNION {RangeOf(chunks[k]) : k \in 1..num_cores} = 1..total_rows
           /\ \A a, b \in 1..num_cores : chunks[a][2] - chunks[b][2] <= 1
           /\ \A k \in 1..num_cores :
                 chunks[k][2] = (total_rows \div num_cores)
                                  + (IF k <= total_rows % num_cores THEN 1 ELSE 0)
           /\ \A k \in 1..num_cores :
                 chunks[k][1] = 1 + (k - 1) * (total_rows \div num_cores)
                                  + MinOf(k - 1, total_rows % num_cores)

\* Seven rows over three workers: 3, 2, 2.
C5_Witness ==
    /\ plan_pc = "planned" /\ num_cores = 3 /\ total_rows = 7
    /\ chunks = <<<<1, 3>>, <<4, 2>>, <<6, 2>>>>

\* ------------------------------------------------- transfer logs and ledger
UploadedFiles == {upload_log[k] : k \in 1..Len(upload_log)}
ManifestFiles == {ParquetManifest[k] : k \in 1..Len(ParquetManifest)}

\* C11: in a run of upload_file_from_manifest every upload-log entry names a
\* file of the manifest, and every manifest entry the run has gone past that has
\* no upload-log entry is a file that was missing from local storage.
C11_ManifestLogDiff ==
    (import_type = "S3" /\ pc \in {"s3loop", "done"})
        => /\ UploadedFiles \subseteq ManifestFiles
           /\ \A k \in 1..(idx - 1) :
                 ParquetManifest[k] \notin UploadedFiles
                     => ParquetManifest[k] \notin DOMAIN parquet_dir

\* C17: a transfer run that has ended has persisted a log with one record per
\* chunk it went through: the upload log on the object-store path; on the
\* relational path, where import_manifest.json is the only file the run
\* writes, that file.
C17_TransferLogPersisted ==
    /\ (pc = "done" /\ import_type = "S3")
          => /\ upload_manifest.saved
             /\ Len(upload_manifest.log) = Len(ParquetManifest)
    /\ (pc = "done" /\ import_type = "RDS")
          => /\ import_manifest_file.exists /\ import_manifest_file.complete
             /\ \A k \in 1..Len(parquet_files) :
                   k < idx => parquet_files[k] \in LedgerFiles(import_manifest_file.entries)

\* C18: a fully written ledger file holds every file name that any fully
\* written ledger file held before it.
C18_LedgerMonotone ==
    (import_manifest_file.exists /\ import_manifest_file.complete)
        => recorded \subseteq LedgerFiles(import_manifest_file.entries)

\* C19: an importer that found a ledger file it could not parse starts with an
\* empty ledger (its ledger holds only what this run imported, it skips no file
\* by a ledger hit), and the run goes on: it raises only where any run can,
\* before its first chunk.
C19_CorruptLedgerNotFatal ==
    loaded_corrupt
        => /\ import_type = "RDS" /\ pc # "idle"
           /\ LedgerFiles(imported_files)
                 \subseteq completed_run \cup (IF pc = "dump" THEN {CurrentFile} ELSE {})
           /\ skipped_run = {}
           /\ pc = "raised" => (idx = 1 /\ ~run_errors)

\* A run that started from a damaged ledger file has imported a chunk and ended.
C19_Witness ==
    /\ loaded_corrupt /\ pc = "done"
    /\ completed_run # {}
    /\ import_manifest_file.complete

\* C20: the step of import_to_rds that reads a row count >= row_limit ends the
\* run normally: nothing is inserted, the directory is not listed and no chunk
\* is read, and the sink, the ledger file and the ledger in memory are what
\* they were.
C20_QuotaAlreadyReached ==
    [][(/\ import_type = "RDS" /\ pc = "begin"
        /\ BagCardinality(sink) >= row_limit
        /\ pc' \notin {"begin", "raised", "idle"})
          => /\ pc' = "done"
             /\ total_rows_inserted' = 0 /\ skipped_files' = 0
             /\ parquet_files' = <<>> /\ records' = <<>>
             /\ run_errors' = FALSE
             /\ UNCHANGED <<sink, import_manifest_file, imported_files, parquet_dir>>]_vars

\* A run returned at once from a full sink although the directory holds a file
\* that its ledger does not list.
C20_Witness ==
    /\ import_type = "RDS" /\ pc = "done"
    /\ current_rows >= row_limit
    /\ parquet_files = <<>>
    /\ imported_files # <<>>
    /\ \E f \in DOMAIN parquet_dir :
          parquet_dir[f] > 0 /\ f \notin LedgerFiles(imported_files)

\* ------------------------------------------------------ producing stages
\* C12: when a worker of generate_data_parallel has failed, the run still
\* writes a manifest that lists the chunks of the other workers.
C12_WorkerFailureIsolated ==
    plan_pc = "worker_failed" => Stamped(gen_run) \in DOMAIN excel_manifests

GenFiles(r) == {k \in 1..num_cores : <<r, k>> \in DOMAIN excel_dir}
Entries(m) == {m.entries[k].chunk_id : k \in 1..Len(m.entries)}

\* C13: a manifest file of a generation run exists only when every chunk file of
\* that run is on disk, the latest file is written after the timestamped one,
\* and a run that is still working, has failed or was killed before the manifest
\* write has no manifest; the manifest of the conversion run exists only when
\* the conversion loop is over, and it lists files that are on disk.
C13_ManifestLast ==
    /\ \A r \in 1..gen_run :
          Stamped(r) \in DOMAIN excel_manifests
              => /\ GenFiles(r) = 1..num_cores
                 /\ Entries(excel_manifests[Stamped(r)]) = 1..num_cores
    /\ Latest \in DOMAIN excel_manifests
          => /\ Stamped(excel_manifests[Latest].run) \in DOMAIN excel_manifests
             /\ excel_manifests[Latest]
                   = excel_manifests[Stamped(excel_manifests[Latest].run)]
    /\ plan_pc \in {"plan", "planned", "write", "worker_failed", "write_failed", "killed"}
          => /\ Stamped(gen_run) \notin DOMAIN excel_manifests
             /\ Latest \in DOMAIN excel_manifests
                   => excel_manifests[Latest].run # gen_run
    /\ conv_pc \in {"off", "convert", "killed"} => parquet_manifests = <<>>
    /\ \A n \in DOMAIN parquet_manifests :
          /\ conv_pc = "convdone" /\ LoopOver(conv_idx, Len(conv_files))
          /\ Entries(parquet_manifests[n]) \subseteq DOMAIN parquet_dir

\* The converter was killed after it had written a chunk file, and the second
\* generation run was killed after it had written one: neither left a manifest.
C13_Witness ==
    /\ conv_pc = "killed" /\ DOMAIN parquet_dir # {} /\ parquet_manifests = <<>>
    /\ plan_pc = "killed" /\ gen_run = 2 /\ GenFiles(2) # {}
    /\ Stamped(2) \notin DOMAIN excel_manifests
    /\ excel_manifests[Latest].run = 1

ListedParquet ==
    UNION {Entries(parquet_manifests[n]) : n \in DOMAIN parquet_manifests}

\* C14: every row of the sink comes from a chunk file that an emitted manifest
\* of the conversion stage lists.
C14_OnlyManifestChunks ==
    \A row \in BagToSet(sink) : row[1] \in ListedParquet

\* C15: a completed run of a producing stage has left its timestamped manifest
\* and the stage's latest file, with the same content.
C15_TwoManifests ==
    /\ plan_pc = "gendone"
          => /\ Stamped(gen_run) \in DOMAIN excel_manifests
             /\ Latest \in DOMAIN excel_manifests
             /\ excel_manifests[Latest] = excel_manifests[Stamped(gen_run)]
    /\ conv_pc = "convdone"
          => /\ Stamped(1) \in DOMAIN parquet_manifests
             /\ Latest \in DOMAIN parquet_manifests
             /\ parquet_manifests[Latest] = parquet_manifests[Stamped(1)]

\* The import run of the scenario: it listed the three converted chunks of 4, 3
\* and 3 rows and found the sink empty.
ScenarioRun ==
    /\ import_type = "RDS"
    /\ parquet_files = <<1, 2, 3>>
    /\ DOMAIN parquet_dir = {1, 2, 3}
    /\ parquet_dir[1] = 4 /\ parquet_dir[2] = 3 /\ parquet_dir[3] = 3
    /\ current_rows = 0

ScenarioPlan ==
    /\ plan_pc \notin {"off", "plan"} => chunks = <<<<1, 4>>, <<5, 3>>, <<8, 3>>>>
    /\ Stamped(gen_run) \in DOMAIN excel_manifests
          => Len(excel_manifests[Stamped(gen_run)].entries) = 3

ScenarioOutcome ==
    /\ sink = SetToBag({<<1, 1>>, <<1, 2>>, <<1, 3>>, <<1, 4>>, <<2, 1>>})
    /\ count_rows = 5
    /\ import_manifest_file.exists /\ import_manifest_file.complete
    /\ import_manifest_file.entries
          = <<[file |-> 1, rows_imported |-> 4], [file |-> 2, rows_imported |-> 1]>>

C21_LatestManifest ==
    [][(res_pc = "idle" /\ res_pc' # "idle")
        => IF Glob("output_dir") = {}
              THEN res_pc' = "FileNotFoundError" /\ latest_manifest' = NoManifest
              ELSE /\ res_pc' = "resolved"
                   /\ latest_manifest' \in Glob("output_dir")
                   /\ latest_manifest'.stem = "converted_chunk_manifest_"
                   /\ \A f \in Glob("output_dir") :
                         dir_files[f] <= dir_files[latest_manifest']]_vars

\* The uploader resolved the newer of two conversion manifests, with a chunk
\* file and an earlier run's upload log on disk.
C21_Witness ==
    /\ res_pc = "resolved"
    /\ Cardinality(Glob("output_dir")) >= 2
    /\ \E f \in Glob("output_dir") : dir_files[f] < dir_files[latest_manifest]
    /\ \E f \in DOMAIN dir_files : f.ext = "parquet"
    /\ \E f \in DOMAIN dir_files : f.dir = "manifest_dir"

\* How the iterations of the conversion loop ended, by chunk ordinal.
ChunksThat(outcome) == {k \in 1..Len(conv_outcome) : conv_outcome[k] = outcome}

\* C22: at every point of a conversion run the manifest list holds one entry for
\* each chunk that was written and none for a chunk whose read or write failed
\* or that was empty, every entry names a file that is on disk with all the rows
\* of its Excel chunk, and a run whose loop has ended has emitted that list as
\* its manifest, whatever number of chunks failed.
C22_ManifestListsWritten ==
    conv_pc \in {"convert", "convdone", "killed"}
       => /\ Len(conv_outcome) = conv_idx - 1
          /\ Entries([entries |-> conv_manifest]) = ChunksThat("written")
          /\ Len(conv_manifest) = Cardinality(ChunksThat("written"))
          /\ \A n \in 1..Len(conv_manifest) :
                LET e == conv_manifest[n]
                IN /\ e.chunk_id \in DOMAIN parquet_dir
                   /\ e.rows > 0
                   /\ parquet_dir[e.chunk_id] = e.rows
                   /\ excel_dir[conv_files[e.chunk_id]][2] = e.rows
          /\ conv_pc = "convdone"
                => /\ Stamped(1) \in DOMAIN parquet_manifests
                   /\ parquet_manifests[Stamped(1)].entries = conv_manifest
                   /\ Len(conv_outcome) = Len(conv_files)

\* A conversion run of two chunks has ended: one was written and is listed, the
\* other failed after its file reached the disk and is not listed.
C22_Witness ==
    /\ conv_pc = "convdone"
    /\ ChunksThat("written") # {}
    /\ \E k \in ChunksThat("failed") : k \in DOMAIN parquet_dir
    /\ Len(parquet_manifests[Stamped(1)].entries) = 1

\* Files this run has read or handed to insert_many: those it went past without
\* a ledger hit, and those it imported.
Attempted ==
    ({parquet_files[k] : k \in 1..(idx - 1)} \ skipped_run) \cup completed_run

\* The step of import_to_rds in which insert_many raises.
InsertFails == import_type = "RDS" /\ pc = "insert" /\ pc' \notin {"insert", "open", "idle"}

\* The step in which import_to_rds ends normally.
RunEnds == import_type = "RDS" /\ pc # "done" /\ pc' = "done"

\* What a failed insert_many leaves: the table, the ledger and the run's counter
\* as they were, the chunk without a ledger entry, and the loop at the next
\* file with the quota not reached.
FailedInsertIsolated ==
    InsertFails
       => /\ sink' = sink
          /\ import_manifest_file' = import_manifest_file
          /\ imported_files' = imported_files
          /\ parquet_files[idx] \notin LedgerFiles(imported_files')
          /\ total_rows_inserted' = total_rows_inserted
          /\ pc' = "loop" /\ idx' = idx + 1
          /\ current_rows' + total_rows_inserted' < row_limit'

\* C23 as stated: a failed insert_many leaves table, ledger and counter alone and
\* the loop goes on; and the run that follows attempts every chunk whose insert
\* failed in the run before.
C23_FailedInsert_Original ==
    [][/\ FailedInsertIsolated
       /\ RunEnds => insert_failed.prev \subseteq Attempted']_vars

\* C23 amended: a failed insert_many leaves table, ledger and counter alone and
\* the loop goes on; the run that follows never skips a chunk whose insert
\* failed in the run before as already imported, and it attempts that chunk
\* unless it ends with the quota reached.
C23_FailedInsert ==
    [][/\ FailedInsertIsolated
       /\ RunEnds
            => \A f \in insert_failed.prev :
                  /\ f \notin skipped_run'
                  /\ \/ f \in Attempted'
                     \/ current_rows' + total_rows_inserted' >= row_limit']_vars

\* A run has ended in which the chunk whose insert failed in the run before was
\* imported, after another chunk's insert failed in this run.
C23_Witness ==
    /\ import_type = "RDS" /\ pc = "done"
    /\ insert_failed.prev # {}
    /\ insert_failed.prev \subseteq completed_run
    /\ insert_failed.cur # {}

\* The chunk files of the input directory that hold no row.
EmptyFiles == {f \in DOMAIN parquet_dir : parquet_dir[f] = 0}

\* C24: with num_rows = 0 the plan is num_cores ranges of no rows; the converter
\* writes no file and lists no chunk, goes through every chunk and emits a
\* manifest without entries; the importer never hands an empty chunk to
\* insert_many, never gives it a ledger entry, raises only before its first
\* chunk, and over a directory of empty chunks only it ends with nothing
\* inserted and no ledger file written.
C24_EmptyInput ==
    /\ \A k \in 1..Len(chunks) : chunks[k] = <<1, 0>>
    /\ plan_pc \in {"planned", "write", "latest", "gendone"} => Len(chunks) = num_cores
    /\ conv_pc # "off"
          => /\ ChunksThat("written") = {}
             /\ conv_manifest = <<>>
             /\ Len(conv_files) = num_cores
    /\ conv_pc = "convdone"
          => /\ Len(conv_outcome) = num_cores
             /\ parquet_manifests[Stamped(1)].entries = <<>>
    /\ EmptyFiles \cap LedgerFiles(import_manifest_file.entries) = {}
    /\ import_type = "RDS"
          => /\ EmptyFiles \cap LedgerFiles(imported_files) = {}
             /\ pc \in {"insert", "open", "dump"} => CurrentFile \notin EmptyFiles
             /\ pc = "raised" => idx = 1 /\ parquet_files = <<>>
             /\ (pc = "done" /\ EmptyFiles = DOMAIN parquet_dir)
                   => /\ sink = EmptyBag /\ total_rows_inserted = 0
                      /\ import_manifest_file = NoFile
                      /\ ~run_errors => idx = Len(parquet_files) + 1

\* The whole pipeline has run on num_rows = 0 over two workers: both Excel
\* chunks were skipped as empty, the manifest without entries is written, and
\* the importer has gone through a directory of two empty chunk files.
C24_Witness ==
    /\ total_rows = 0 /\ num_cores = 2 /\ plan_pc = "gendone"
    /\ conv_pc = "convdone" /\ ChunksThat("empty") = {1, 2}
    /\ import_type = "RDS" /\ pc = "done" /\ ~run_errors
    /\ Cardinality(EmptyFiles) = 2 /\ EmptyFiles = DOMAIN parquet_dir
    /\ idx = 3

\* C25: whatever runs, kills and restarts happened, no row of a chunk file is in
\* the sink more than once.
C25_NoDuplicateIngestion ==
    \A row \in BagToSet(sink) : row[1] # 0 => CopiesIn(row, sink) <= 1

\* The files a run has gone past.
Visited == {parquet_files[k] : k \in 1..(idx - 1)}

\* C26: a started import_to_rds that is not killed ends; each step of its loop
\* goes to the next file or ends the run; it raises only before the loop; and
\* when it has ended normally either the quota is reached, or it has gone past
\* every chunk file of the directory, each of them once and each either
\* imported, skipped by a ledger hit, empty, or failed.
C26_Terminates ==
    /\ (import_type = "RDS" /\ pc = "begin") ~> (pc \in {"done", "raised", "idle"})
    /\ [][(import_type = "RDS" /\ pc = "loop" /\ pc' = "loop") => idx' = idx + 1]_vars
    /\ [][(import_type = "RDS" /\ pc \in {"insert", "dump"} /\ pc' = "loop")
             => idx' = idx + 1]_vars
    /\ [](import_type = "RDS" /\ pc = "raised" => idx = 1 /\ parquet_files = <<>>)
    /\ [](import_type = "RDS" /\ pc = "done"
            => \/ current_rows + total_rows_inserted >= row_limit
               \/ /\ idx = Len(parquet_files) + 1
                  /\ Visited = DOMAIN parquet_dir
                  /\ Cardinality(Visited) = Len(parquet_files)
                  /\ completed_run \cap skipped_run = {}
                  /\ completed_run \cap EmptyFiles = {}
                  /\ insert_failed.cur \cap (completed_run \cup skipped_run \cup EmptyFiles) = {}
                  /\ ~run_errors
                        => Visited = completed_run \cup skipped_run \cup EmptyFiles)

\* A run over three files has ended below the quota: one file imported, one
\* empty, one whose insert failed.
C26_Witness ==
    /\ import_type = "RDS" /\ pc = "done"
    /\ current_rows + total_rows_inserted < row_limit
    /\ Len(parquet_files) = 3 /\ idx = 4
    /\ completed_run # {} /\ insert_failed.cur # {}
    /\ \E f \in Visited : f \in EmptyFiles

====
